---- MODULE Spec2Model ----
(***************************************************************************)
(* sort_includes.py: sorting, grouping and deduplicating the #include      *)
(* directives of a C source or header file.                                *)
(*                                                                         *)
(* File contents, lines and directives are character strings.  A string is *)
(* read with Len and SubSeq and built with \o, so that prefix, suffix and  *)
(* substring tests, stripping, ordering and line splitting are computed    *)
(* character by character, as the Python string methods compute them.      *)
(***************************************************************************)
EXTENDS Integers, Sequences, FiniteSets, TLC

VARIABLES
    path,               \* the name of the file given to main
    content,            \* the text of that file in the file system
    pc,                 \* where the process is: idle or main, sort_includes, collected,
                        \* exit, raised (ValueError), FileNotFoundError
    includes,           \* sort_includes: the result of collect_include_lines
    lib_includes,       \* sort_include_lines: lib_includes after line 105
    src_includes,       \* sort_include_lines: src_includes after line 106
    out_buffer,         \* sort_include_lines: the value of out_buffer
    written,            \* sort_include_lines: per line of file_lines, whether the loop wrote it
    files_refactored,   \* the module-level counter
    opened_rw,          \* whether the file was opened 'r+' during the current run
    runs,               \* number of times main was started
    input,              \* the text of the file before the current run
    first_output,       \* the text of the file after the first run
    arg,                \* main on a directory: args.path, as the tuple of its parts
    tree,               \* the files of the file system: their text, by path
    tree_before,        \* the files of the file system when main was started
    source_file_paths,  \* the module-level list filled by collect_source_files
    todo,               \* sort_includes: the files still to be passed to sort_includes
    opened              \* the files opened so far, each with the mode of open

\* the variables of the run on a directory
dirvars == << arg, tree, tree_before, source_file_paths, todo, opened >>

vars == << path, content, pc, includes, lib_includes, src_includes, out_buffer,
           written, files_refactored, opened_rw, runs, input, first_output, dirvars >>

----------------------------------------------------------------------------
(* Bounds of the model *)

\* longest file made of any lines of LinePool, in lines
MaxLines == 3

\* longest file made of the lines of CondPool only, in lines
MaxCondLines == 4

\* how many times the tool is run on the file
MaxRuns == 2

\* longest list of angle-bracket directives given to sort_lib_includes
MaxLibs == 4

\* longest list of quoted directives given to sort_src_includes
MaxSrcs == 3

\* how many files the directory given to main holds at most, its subdirectories included
MaxFiles == 3

----------------------------------------------------------------------------
(* Characters and strings *)

\* the characters of the model in code point order (str comparison order):
\* tab, newline, then the printable ASCII characters (the backquote left out)
CodePointOrder ==
    "\t\n !\"#$%&'()*+,-./0123456789:;<=>?@ABCDEFGHIJKLMNOPQRSTUVWXYZ[\\]^_abcdefghijklmnopqrstuvwxyz{|}~"

Chars == { SubSeq(CodePointOrder, i, i) : i \in 1..Len(CodePointOrder) }

\* position of a character in code point order
Ord == [ c \in Chars |-> CHOOSE i \in 1..Len(CodePointOrder) : SubSeq(CodePointOrder, i, i) = c ]

\* str.isspace of one character
Whitespace == { " ", "\t", "\n" }

CharAt(s, i) == SubSeq(s, i, i)

Min(S) == CHOOSE m \in S : \A n \in S : m <= n

\* str.startswith
startswith(s, prefix) ==
    Len(s) >= Len(prefix) /\ SubSeq(s, 1, Len(prefix)) = prefix

\* str.endswith
endswith(s, suffix) ==
    Len(s) >= Len(suffix) /\ SubSeq(s, Len(s) - Len(suffix) + 1, Len(s)) = suffix

\* x in s, for strings
contains(s, x) ==
    \E i \in 1..(Len(s) - Len(x) + 1) : SubSeq(s, i, i + Len(x) - 1) = x

\* str.rstrip(): drop trailing whitespace
RECURSIVE rstrip(_)
rstrip(s) ==
    IF s = "" THEN ""
    ELSE IF CharAt(s, Len(s)) \in Whitespace THEN rstrip(SubSeq(s, 1, Len(s) - 1))
    ELSE s

\* not line.strip(): the line holds whitespace only
blank(s) == \A i \in 1..Len(s) : CharAt(s, i) \in Whitespace

\* a < b for str: the first differing character decides, else the length
RECURSIVE StrLessFrom(_, _, _)
StrLessFrom(a, b, i) ==
    IF i > Len(a) THEN i <= Len(b)
    ELSE IF i > Len(b) THEN FALSE
    ELSE IF CharAt(a, i) = CharAt(b, i) THEN StrLessFrom(a, b, i + 1)
    ELSE Ord[CharAt(a, i)] < Ord[CharAt(b, i)]

StrLess(a, b) == StrLessFrom(a, b, 1)

\* insert x into the sorted list l, after the entries not greater than it
RECURSIVE Insert(_, _)
Insert(x, l) ==
    IF l = << >> THEN << x >>
    ELSE IF StrLess(x, Head(l)) THEN << x >> \o l
    ELSE << Head(l) >> \o Insert(x, Tail(l))

\* sorted(l) for a list of strings
RECURSIVE sorted(_)
sorted(l) ==
    IF l = << >> THEN << >>
    ELSE Insert(l[Len(l)], sorted(SubSeq(l, 1, Len(l) - 1)))

\* mutant of fromkeys: no entry is dropped
fromkeys_keeping_duplicates(l) == l

\* list(dict.fromkeys(l)): the first occurrence of every entry, in order
fromkeys(l) ==
    LET first == { i \in 1..Len(l) : \A j \in 1..(i - 1) : l[j] # l[i] }
        RECURSIVE pick(_)
        pick(i) == IF i > Len(l) THEN << >>
                   ELSE IF i \in first THEN << l[i] >> \o pick(i + 1)
                   ELSE pick(i + 1)
    IN  pick(1)

\* [x for x in l if str(x).endswith(suffix)]
RECURSIVE ending(_, _)
ending(l, suffix) ==
    IF l = << >> THEN << >>
    ELSE IF endswith(Head(l), suffix) THEN << Head(l) >> \o ending(Tail(l), suffix)
    ELSE ending(Tail(l), suffix)

\* l.remove(x): drop the first entry equal to x
remove(l, x) ==
    LET i == Min({ k \in 1..Len(l) : l[k] = x })
    IN  SubSeq(l, 1, i - 1) \o SubSeq(l, i + 1, Len(l))

\* the lines of a text file, each with its terminator (file iteration, readlines):
\* a line ends at every "\n", and the text after the last "\n" is a last line
readlines(s) ==
    LET nl == { i \in 1..Len(s) : CharAt(s, i) = "\n" }
        ends == IF s = "" \/ Len(s) \in nl THEN nl ELSE nl \cup { Len(s) }
        RECURSIVE cut(_)
        cut(from) ==
            IF from > Len(s) THEN << >>
            ELSE LET to == Min({ e \in ends : e >= from })
                 IN  << SubSeq(s, from, to) >> \o cut(to + 1)
    IN  cut(1)

----------------------------------------------------------------------------
(* pathlib *)

\* index of the last "." of a file name, when it splits the name into stem and suffix
SuffixDot(name) ==
    LET dots == { i \in 2..(Len(name) - 1) : CharAt(name, i) = "." }
    IN  IF dots = {} THEN 0 ELSE CHOOSE m \in dots : \A n \in dots : n <= m

\* Path.suffix
suffix(name) ==
    IF SuffixDot(name) = 0 THEN "" ELSE SubSeq(name, SuffixDot(name), Len(name))

\* Path.stem
stem(name) ==
    IF SuffixDot(name) = 0 THEN name ELSE SubSeq(name, 1, SuffixDot(name) - 1)

----------------------------------------------------------------------------
(* sort_includes.py *)

\* mutant of stdlib_includes: the list with <stdalign.h> in it
stdlib_includes_with_stdalign ==
    << "<assert.h>", "<complex.h>", "<ctype.h>", "<errno.h>", "<float.h>", "<inttypes.h>",
       "<limits.h>", "<locale.h>", "<math.h>", "<signal.h>", "<stdalign.h>", "<stdarg.h>",
       "<stdbool.h>", "<stddef.h>", "<stdint.h>", "<stdio.h>", "<stdlib.h>", "<string.h>",
       "<time.h>" >>

\* lines 28-30
stdlib_includes ==
    << "<assert.h>", "<complex.h>", "<ctype.h>", "<errno.h>", "<float.h>", "<inttypes.h>",
       "<limits.h>", "<locale.h>", "<math.h>", "<signal.h>", "<stdarg.h>", "<stdbool.h>",
       "<stddef.h>", "<stdint.h>", "<stdio.h>", "<stdlib.h>", "<string.h>", "<time.h>" >>

\* line 26
excluded_dirs == { ".git", ".vscode", "ASF", "config", "lib" }

\* line 27
excluded_files == { "asf.h", "git_version.h", "aes.c", "aes.h" }

\* a path is the tuple of its parts; Path.name is the last of them
name(p) == p[Len(p)]

\* p is q or lies under q
under(p, q) == Len(p) >= Len(q) /\ SubSeq(p, 1, Len(q)) = q

\* the directory the tool is run on, which exists even when it holds no file
Root == << "proj" >>

\* Path.is_file, in the file system fs
is_file(fs, p) == p \in DOMAIN fs

\* Path.is_dir: the directories are Root and those that hold a file
is_dir(fs, p) == p = Root \/ (p # << >> /\ \E f \in DOMAIN fs : f # p /\ under(f, p))

\* mutant of exists: every path is taken to exist
exists_always(fs, p) == TRUE

\* Path.exists
exists(fs, p) == is_file(fs, p) \/ is_dir(fs, p)

\* Path.iterdir: the entries of a directory
iterdir(fs, folder_path) ==
    { SubSeq(f, 1, Len(folder_path) + 1) :
        f \in { g \in DOMAIN fs : g # folder_path /\ under(g, folder_path) } }

\* lines 32-36
dir_excluded(p) == \E k \in 1..Len(p) : p[k] \in excluded_dirs

\* lines 38-41
file_excluded(p) ==
    IF suffix(name(p)) = ".c" \/ suffix(name(p)) = ".h"
    THEN name(p) \in excluded_files
    ELSE FALSE

\* lines 45-51: the paths appended to source_file_paths by the walk of folder_path
RECURSIVE collect_source_files(_, _)
collect_source_files(fs, folder_path) ==
    { p \in iterdir(fs, folder_path) : is_file(fs, p) /\ ~file_excluded(p) }
        \cup UNION { collect_source_files(fs, p) :
                       p \in { q \in iterdir(fs, folder_path) :
                                  is_dir(fs, q) /\ ~dir_excluded(q) } }

\* the loop of collect_include_lines over the lines still to read
RECURSIVE collect_loop(_, _, _)
collect_loop(file_lines, in_if_block, lines) ==
    IF file_lines = << >> THEN lines
    ELSE LET line == rstrip(Head(file_lines))
             rest == Tail(file_lines)
         IN  IF startswith(line, "#include") /\ ~in_if_block
                 THEN collect_loop(rest, in_if_block, Append(lines, line))
             ELSE IF startswith(line, "#if")
                 THEN collect_loop(rest, TRUE, lines)
             ELSE IF startswith(line, "#endif") /\ in_if_block
                 THEN collect_loop(rest, FALSE, lines)
             ELSE collect_loop(rest, in_if_block, lines)

collect_include_lines(text) == collect_loop(readlines(text), FALSE, << >>)

\* any([x in directive for x in stdlib_includes])
is_stdlib(directive) ==
    \E k \in 1..Len(stdlib_includes) : contains(directive, stdlib_includes[k])

\* the entries of l that are (std = TRUE) or are not (std = FALSE) standard library includes
RECURSIVE partition(_, _)
partition(l, std) ==
    IF l = << >> THEN << >>
    ELSE IF is_stdlib(Head(l)) = std THEN << Head(l) >> \o partition(Tail(l), std)
    ELSE partition(Tail(l), std)

\* mutant of sort_lib_includes: the directives are taken in file order, not sorted
sort_lib_includes_unsorted(lib) ==
    IF Len(partition(lib, TRUE)) > 0 /\ Len(partition(lib, FALSE)) > 0
    THEN partition(lib, TRUE) \o << "" >> \o partition(lib, FALSE)
    ELSE partition(lib, TRUE) \o partition(lib, FALSE)

sort_lib_includes(lib) ==
    LET in_order == sorted(lib)
        lib_includes_stdlib == partition(in_order, TRUE)
        lib_includes_other == partition(in_order, FALSE)
    IN  IF Len(lib_includes_stdlib) > 0 /\ Len(lib_includes_other) > 0
        THEN lib_includes_stdlib \o << "" >> \o lib_includes_other
        ELSE lib_includes_stdlib \o lib_includes_other

\* '#include "{}.h"'.format(file_path.stem)
associated_header(file_path) == "#include \"" \o stem(file_path) \o ".h\""

\* mutant of sort_src_includes: the associated header is not placed at the top
sort_src_includes_without_promotion(file_path, src) == sorted(src)

\* mutant of sort_src_includes: the directive replaced by the header is the first
\* match of the sorted list, not of the list in file order
sort_src_includes_promoting_sorted_first(file_path, src) ==
    LET in_order == sorted(src)
        matches == { i \in 1..Len(src) : contains(in_order[i], stem(file_path)) }
    IN  IF suffix(file_path) = ".c" /\ matches # {}
        THEN LET rest == remove(in_order, in_order[Min(matches)])
             IN  IF Len(rest) > 0
                 THEN << associated_header(file_path), "" >> \o rest
                 ELSE << associated_header(file_path) >>
        ELSE in_order

sort_src_includes(file_path, src) ==
    LET matches == { i \in 1..Len(src) : contains(src[i], stem(file_path)) }
    IN  IF suffix(file_path) = ".c" /\ matches # {}
        THEN LET rest == remove(src, src[Min(matches)])
             IN  IF Len(rest) > 0
                 THEN << associated_header(file_path), "" >> \o sorted(rest)
                 ELSE << associated_header(file_path) >>
        ELSE sorted(src)

\* lines 126-133: the sorted include directives as written at the first #include line
RECURSIVE write_lines(_)
write_lines(l) ==
    IF l = << >> THEN "" ELSE Head(l) \o "\n" \o write_lines(Tail(l))

dump_includes(lib, src) ==
    write_lines(lib) \o (IF Len(lib) > 0 THEN "\n" ELSE "")
        \o write_lines(src) \o (IF Len(src) > 0 THEN "\n" ELSE "")

\* the state of the loop of sort_include_lines before any line is read
LoopInit ==
    [ out |-> "", in_if_block |-> FALSE, first_include_line |-> TRUE,
      first_line_after_include_block |-> FALSE, written |-> << >> ]

\* mutant of skips_blank: a blank line is dropped wherever it stands
skips_blank_anywhere(st, line) == blank(line)

\* line 144: first_line_after_include_block and not line.strip()
skips_blank(st, line) == st.first_line_after_include_block /\ blank(line)

\* one pass of the loop body of sort_include_lines (lines 119-148)
LoopBody(st, line, lib, src) ==
    IF startswith(line, "#include") THEN
        IF st.first_include_line THEN
            [ st EXCEPT !.first_include_line = FALSE,
                        !.first_line_after_include_block = TRUE,
                        !.out = @ \o dump_includes(lib, src),
                        !.written = Append(@, FALSE) ]
        ELSE IF st.in_if_block THEN
            [ st EXCEPT !.out = @ \o line, !.written = Append(@, TRUE) ]
        ELSE [ st EXCEPT !.written = Append(@, FALSE) ]
    ELSE IF ~st.first_include_line /\ startswith(line, "#if") THEN
        [ st EXCEPT !.out = @ \o line, !.in_if_block = TRUE,
                    !.first_line_after_include_block = FALSE,
                    !.written = Append(@, TRUE) ]
    ELSE IF ~st.first_include_line /\ startswith(line, "#end") THEN
        [ st EXCEPT !.out = @ \o line, !.in_if_block = FALSE,
                    !.first_line_after_include_block = FALSE,
                    !.written = Append(@, TRUE) ]
    ELSE IF skips_blank(st, line) THEN
        [ st EXCEPT !.written = Append(@, FALSE) ]
    ELSE
        [ st EXCEPT !.out = @ \o line, !.first_line_after_include_block = FALSE,
                    !.written = Append(@, TRUE) ]

\* the loop of sort_include_lines over file_lines (line 118)
RECURSIVE rewrite_loop(_, _, _, _)

\* mutant of rewrite_loop: an #include line after the first one and outside a
\* conditional block is written where it stands
rewrite_loop_keeping_later_includes(st, file_lines, lib, src) ==
    IF file_lines = << >> THEN st
    ELSE LET line == Head(file_lines)
         IN  rewrite_loop(
                 IF startswith(line, "#include") /\ ~st.first_include_line /\ ~st.in_if_block
                 THEN [ st EXCEPT !.out = @ \o line, !.written = Append(@, TRUE) ]
                 ELSE LoopBody(st, line, lib, src),
                 Tail(file_lines), lib, src)

rewrite_loop(st, file_lines, lib, src) ==
    IF file_lines = << >> THEN st
    ELSE rewrite_loop(LoopBody(st, Head(file_lines), lib, src), Tail(file_lines), lib, src)

\* mutant of has_includes: the file is rewritten whatever was collected
has_includes_always(collected) == TRUE

\* sort_includes, line 165: len(includes) > 0
has_includes(collected) == Len(collected) > 0

\* lines 151-155: out_buffer.seek(out_buffer.tell() - 1) raises ValueError at position -1
seek_raises(out) == Len(out) = 0

\* mutant of append_newline: nothing is appended
append_newline_never(out) == out

\* lines 151-155: append a newline when the last character is not one
append_newline(out) ==
    IF CharAt(out, Len(out)) = "\n" THEN out ELSE out \o "\n"

\* lines 163-169: sort_includes on the file file_path, whose text is text
sort_includes_file(file_path, text) ==
    LET collected == collect_include_lines(text)
        lib == fromkeys(sort_lib_includes(ending(collected, ">")))
        src == fromkeys(sort_src_includes(file_path, ending(collected, "\"")))
        st == rewrite_loop(LoopInit, readlines(text), lib, src)
    IN  IF ~has_includes(collected)
        THEN [ raised |-> FALSE, refactored |-> FALSE, rw |-> FALSE, text |-> text ]
        ELSE IF seek_raises(st.out)
        THEN [ raised |-> TRUE, refactored |-> FALSE, rw |-> TRUE, text |-> text ]
        ELSE [ raised |-> FALSE, refactored |-> TRUE, rw |-> TRUE,
               text |-> append_newline(st.out) ]

----------------------------------------------------------------------------
(* The files the tool is run on *)

\* the file names: a source file and a header
Paths == { "foo.c", "foo.h" }

\* the lines a file is made of, without their terminator
LinePool ==
    { "#include <stdio.h>", "#include <b.h>", "#include \"foo.h\"", "#include \"bar.h\"",
      "#include foo", "", "#if X", "#endif", "int x;" }

\* the text of a file whose lines are ls, each with its terminator
RECURSIVE Text(_)
Text(ls) == IF ls = << >> THEN "" ELSE Head(ls) \o "\n" \o Text(Tail(ls))

\* the lines of the longer files: conditional blocks, include lines and blank lines
CondPool == { "#if X", "#endif", "#include <b.h>", "#include \"bar.h\"", "" }

\* the texts of at most n lines of pool, every line with its terminator
Terminated(pool, n) == UNION { { Text(ls) : ls \in [1..k -> pool] } : k \in 0..n }

\* the input files; the last line of a file may lack its terminator
Files ==
    LET terminated == Terminated(LinePool, MaxLines) \cup Terminated(CondPool, MaxCondLines)
    IN  terminated \cup { SubSeq(t, 1, Len(t) - 1) : t \in terminated \ { "" } }

----------------------------------------------------------------------------
(* The state machine *)

\* the tool is run on one file: no directory is walked
NoDirectory ==
    /\ arg = << >>
    /\ tree = << >>
    /\ tree_before = << >>
    /\ source_file_paths = << >>
    /\ todo = << >>
    /\ opened = {}

Init ==
    /\ path \in Paths
    /\ content \in Files
    /\ pc = "idle"
    /\ includes = << >>
    /\ lib_includes = << >>
    /\ src_includes = << >>
    /\ out_buffer = ""
    /\ written = << >>
    /\ files_refactored = 0
    /\ opened_rw = FALSE
    /\ runs = 0
    /\ input = content
    /\ first_output = content
    /\ NoDirectory

\* main on an existing file: a new process, up to the call of sort_includes
Main ==
    /\ pc \in { "idle", "exit", "raised" }
    /\ runs < MaxRuns
    /\ pc' = "sort_includes"
    /\ runs' = runs + 1
    /\ input' = content
    /\ files_refactored' = 0
    /\ opened_rw' = FALSE
    /\ includes' = << >>
    /\ lib_includes' = << >>
    /\ src_includes' = << >>
    /\ out_buffer' = ""
    /\ written' = << >>
    /\ UNCHANGED << path, content, first_output >>
    /\ UNCHANGED dirvars

\* sort_includes, line 164: includes = collect_include_lines(path)
CollectIncludeLines ==
    /\ pc = "sort_includes"
    /\ includes' = collect_include_lines(content)
    /\ pc' = "collected"
    /\ UNCHANGED << path, content, lib_includes, src_includes, out_buffer, written,
                    files_refactored, opened_rw, runs, input, first_output >>
    /\ UNCHANGED dirvars

\* sort_includes, line 165: no include line was collected; main prints the count and ends
SkipFile ==
    /\ pc = "collected"
    /\ ~has_includes(includes)
    /\ pc' = "exit"
    /\ first_output' = IF runs = 1 THEN content ELSE first_output
    /\ UNCHANGED << path, content, includes, lib_includes, src_includes, out_buffer,
                    written, files_refactored, opened_rw, runs, input >>
    /\ UNCHANGED dirvars

\* sort_includes, lines 165-169: sort_include_lines(path, includes), then count the file
SortIncludeLines ==
    /\ pc = "collected"
    /\ has_includes(includes)
    /\ LET lib == fromkeys(sort_lib_includes(ending(includes, ">")))
           src == fromkeys(sort_src_includes(path, ending(includes, "\"")))
           st == rewrite_loop(LoopInit, readlines(content), lib, src)
       IN  /\ lib_includes' = lib
           /\ src_includes' = src
           /\ written' = st.written
           /\ opened_rw' = TRUE
           /\ IF seek_raises(st.out)
              THEN /\ out_buffer' = st.out
                   /\ pc' = "raised"
                   /\ UNCHANGED << content, files_refactored >>
              ELSE /\ out_buffer' = append_newline(st.out)
                   /\ content' = append_newline(st.out)
                   /\ files_refactored' = files_refactored + 1
                   /\ pc' = "exit"
    /\ first_output' = IF runs = 1 THEN content' ELSE first_output
    /\ UNCHANGED << path, includes, runs, input >>
    /\ UNCHANGED dirvars

Next == Main \/ CollectIncludeLines \/ SkipFile \/ SortIncludeLines

Spec == Init /\ [][Next]_vars

----------------------------------------------------------------------------
(* sort_lib_includes alone, on lists of angle-bracket directives *)

\* the directives of those lists: standard library headers and other headers, the
\* other ones before, between and after the standard ones in str order
LibPool ==
    { "#include <stdio.h>", "#include <math.h>", "#include <b.h>", "#include <zlib.h>",
      "#include <stdalign.h>" }

InitLib ==
    /\ path = "foo.c"
    /\ content = ""
    /\ pc = "sort_lib_includes"
    /\ includes \in UNION { [1..n -> LibPool] : n \in 0..MaxLibs }
    /\ lib_includes = << >>
    /\ src_includes = << >>
    /\ out_buffer = ""
    /\ written = << >>
    /\ files_refactored = 0
    /\ opened_rw = FALSE
    /\ runs = 0
    /\ input = ""
    /\ first_output = ""
    /\ NoDirectory

\* line 105: lib_includes = list(dict.fromkeys(sort_lib_includes(file_path, lib_includes)))
SortLibIncludes ==
    /\ pc = "sort_lib_includes"
    /\ lib_includes' = fromkeys(sort_lib_includes(ending(includes, ">")))
    /\ pc' = "sorted"
    /\ UNCHANGED << path, content, includes, src_includes, out_buffer, written,
                    files_refactored, opened_rw, runs, input, first_output >>
    /\ UNCHANGED dirvars

NextLib == SortLibIncludes

SpecLib == InitLib /\ [][NextLib]_vars

----------------------------------------------------------------------------
(* sort_src_includes alone, on lists of quoted directives *)

\* the files: a source file, its header, and a source file whose stem is a part of
\* the word include
SrcPaths == { "foo.c", "foo.h", "u.c" }

\* the directives of those lists: the header of foo.c, one that holds no stem but u,
\* and two that hold the stem foo in a longer name, one before and one after
\* #include "foo.h" in str order
SrcPool ==
    { "#include \"foo.h\"", "#include \"bar.h\"", "#include \"foobar.h\"",
      "#include \"afoo.h\"" }

InitSrc ==
    /\ path \in SrcPaths
    /\ content = ""
    /\ pc = "sort_src_includes"
    /\ includes \in UNION { [1..n -> SrcPool] : n \in 0..MaxSrcs }
    /\ lib_includes = << >>
    /\ src_includes = << >>
    /\ out_buffer = ""
    /\ written = << >>
    /\ files_refactored = 0
    /\ opened_rw = FALSE
    /\ runs = 0
    /\ input = ""
    /\ first_output = ""
    /\ NoDirectory

\* line 106: src_includes = list(dict.fromkeys(sort_src_includes(file_path, src_includes)))
SortSrcIncludes ==
    /\ pc = "sort_src_includes"
    /\ src_includes' = fromkeys(sort_src_includes(path, ending(includes, "\"")))
    /\ pc' = "sorted"
    /\ UNCHANGED << path, content, includes, lib_includes, out_buffer, written,
                    files_refactored, opened_rw, runs, input, first_output >>
    /\ UNCHANGED dirvars

NextSrc == SortSrcIncludes

SpecSrc == InitSrc /\ [][NextSrc]_vars

----------------------------------------------------------------------------
(* main on a directory *)

\* the files the directory may hold: a source file, a file that is neither a .c
\* nor a .h file, a header of excluded_files, a source file in a directory of
\* excluded_dirs and a header in another subdirectory
DirFiles ==
    { << "proj", "foo.c" >>, << "proj", "notes.txt" >>, << "proj", "asf.h" >>,
      << "proj", "lib", "bar.c" >>, << "proj", "sub", "bar.h" >> }

\* the texts of those files: include lines out of order, no include line, and an
\* include line that ends with neither > nor a double quote
DirTexts == { "#include <b.h>\n#include <a.h>\n", "int x;\n", "#include foo\n" }

\* the file systems: at most MaxFiles of the files, each with one of the texts
Trees ==
    UNION { [D -> DirTexts] : D \in { S \in SUBSET DirFiles : Cardinality(S) <= MaxFiles } }

\* the paths given to main: the directory, one of its files, two paths that do not
\* exist, and the empty string
Args == { Root, << "proj", "notes.txt" >>, << "gone" >>, << "proj", "gone" >>, << >> }

\* the lists that hold each element of S once
Orderings(S) ==
    { l \in [1..Cardinality(S) -> S] : \A i, j \in 1..Cardinality(S) : i # j => l[i] # l[j] }

InitDir ==
    /\ path = ""
    /\ content = ""
    /\ pc = "main"
    /\ includes = << >>
    /\ lib_includes = << >>
    /\ src_includes = << >>
    /\ out_buffer = ""
    /\ written = << >>
    /\ files_refactored = 0
    /\ opened_rw = FALSE
    /\ runs = 0
    /\ input = ""
    /\ first_output = ""
    /\ arg \in Args
    /\ tree \in Trees
    /\ tree_before = tree
    /\ source_file_paths = << >>
    /\ todo = << >>
    /\ opened = {}

\* main, lines 179-184, and sort_includes up to its loop, lines 163 and 170-171:
\* FileNotFoundError when the path does not exist; the file itself when the path
\* is a file; the files collect_source_files appended, in the order in which
\* iterdir gave them (any order), when it is a directory
MainDir ==
    /\ pc = "main"
    /\ IF arg = << >>
       THEN /\ pc' = "exit"
            /\ UNCHANGED << source_file_paths, todo >>
       ELSE IF ~exists(tree, arg)
       THEN /\ pc' = "FileNotFoundError"
            /\ UNCHANGED << source_file_paths, todo >>
       ELSE IF is_file(tree, arg)
       THEN /\ pc' = "sort_includes"
            /\ todo' = << arg >>
            /\ UNCHANGED source_file_paths
       ELSE IF is_dir(tree, arg)
       THEN /\ pc' = "sort_includes"
            /\ source_file_paths' \in Orderings(collect_source_files(tree, arg))
            /\ todo' = source_file_paths'
       ELSE /\ pc' = "sort_includes"
            /\ UNCHANGED << source_file_paths, todo >>
    /\ UNCHANGED << path, content, includes, lib_includes, src_includes, out_buffer,
                    written, files_refactored, opened_rw, runs, input, first_output,
                    arg, tree, tree_before, opened >>

\* lines 171-172 and 163-169: sort_includes on the next file of the list; a
\* ValueError raised by sort_include_lines ends the process
SortIncludesFile ==
    /\ pc = "sort_includes"
    /\ todo # << >>
    /\ LET file == Head(todo)
           done == sort_includes_file(name(file), tree[file])
       IN  /\ opened' = opened \cup { << file, "r" >> }
                                \cup (IF done.rw THEN { << file, "r+" >> } ELSE {})
           /\ tree' = [tree EXCEPT ![file] = done.text]
           /\ files_refactored' = files_refactored + (IF done.refactored THEN 1 ELSE 0)
           /\ pc' = IF done.raised THEN "raised" ELSE "sort_includes"
    /\ todo' = Tail(todo)
    /\ UNCHANGED << path, content, includes, lib_includes, src_includes, out_buffer,
                    written, opened_rw, runs, input, first_output, arg, tree_before,
                    source_file_paths >>

\* line 185: every file has been passed to sort_includes; main prints the count
MainPrint ==
    /\ pc = "sort_includes"
    /\ todo = << >>
    /\ pc' = "exit"
    /\ UNCHANGED << path, content, includes, lib_includes, src_includes, out_buffer,
                    written, files_refactored, opened_rw, runs, input, first_output,
                    dirvars >>

NextDir == MainDir \/ SortIncludesFile \/ MainPrint

SpecDir == InitDir /\ [][NextDir]_vars

----------------------------------------------------------------------------
(* Vocabulary of the properties *)

\* a run of the tool has ended, by returning or by raising
Finished == pc \in { "exit", "raised" }

\* the current run has rewritten the file: sort_include_lines ran to its end
Rewritten == pc = "exit" /\ opened_rw

\* the lines of the file before and after the current run
InputLines == readlines(input)
OutputLines == readlines(content)

IsInclude(line) == startswith(line, "#include")
IsIf(line) == startswith(line, "#if")
IsEndif(line) == startswith(line, "#endif")

\* the set of the entries of a list
Range(l) == { l[i] : i \in 1..Len(l) }

\* the indices of the #if lines
IfIndices(lines) == { i \in 1..Len(lines) : IsIf(lines[i]) }

\* the k-th smallest number of S
Nth(S, k) == CHOOSE x \in S : Cardinality({ y \in S : y < x }) = k - 1

\* the index of the #endif that closes a block opened before line j, depth blocks
\* having been opened since; 0 when there is none
RECURSIVE ClosingFrom(_, _, _)
ClosingFrom(lines, j, depth) ==
    IF j > Len(lines) THEN 0
    ELSE IF IsIf(lines[j]) THEN ClosingFrom(lines, j + 1, depth + 1)
    ELSE IF IsEndif(lines[j])
        THEN IF depth = 0 THEN j ELSE ClosingFrom(lines, j + 1, depth - 1)
    ELSE ClosingFrom(lines, j + 1, depth)

\* the index of the #endif matching the #if at line i, 0 when there is none
MatchingEndif(lines, i) == ClosingFrom(lines, i + 1, 0)

\* the lines strictly between the #if at line i and its matching #endif
BlockBody(lines, i) == SubSeq(lines, i + 1, MatchingEndif(lines, i) - 1)

----------------------------------------------------------------------------
(* C1 *)

\* C1: Idempotence. Running the tool on the file its first run left gives the same
\* file: after the second run (and any later one) the text of the file is the text
\* the first run left.
C1_Idempotence == (runs >= 2 /\ Finished) => content = first_output

----------------------------------------------------------------------------
(* C2 *)

\* C2: Conditional-block immutability. In a rewritten file, the lines strictly
\* between the k-th #if line and its matching #endif are, for every k, the same
\* lines in the same order as between the k-th #if line of the input and its
\* matching #endif.
C2_ConditionalBlockImmutable ==
    Rewritten =>
        LET ifs_in == IfIndices(InputLines)
            ifs_out == IfIndices(OutputLines)
        IN  \A k \in 1..Cardinality(ifs_in) :
                MatchingEndif(InputLines, Nth(ifs_in, k)) # 0 =>
                    /\ k <= Cardinality(ifs_out)
                    /\ MatchingEndif(OutputLines, Nth(ifs_out, k)) # 0
                    /\ BlockBody(OutputLines, Nth(ifs_out, k))
                           = BlockBody(InputLines, Nth(ifs_in, k))

----------------------------------------------------------------------------
(* C3 *)

\* a well-formed directive: an #include line that ends with > or with a double quote
WellFormed(directive) == endswith(directive, ">") \/ endswith(directive, "\"")

\* the texts of the well-formed #include directives of a text outside its #if/#endif blocks
DirectivesOutsideBlocks(text) ==
    { d \in Range(collect_include_lines(text)) : WellFormed(d) }

\* C3: Set-preservation. The set of distinct well-formed #include directive texts
\* outside conditional blocks is the same in the rewritten file as in the input.
C3_SetPreservation ==
    Rewritten => DirectivesOutsideBlocks(content) = DirectivesOutsideBlocks(input)

----------------------------------------------------------------------------
(* C4 *)

\* the positions of the directives of a group, its blank separators left out
DirectiveIndices(group) == { i \in 1..Len(group) : group[i] # "" }

\* C4: Ordering law. In the library group as emitted (lib_includes after line 105),
\* no other-library directive precedes a standard-library directive, and two
\* directives of the same kind are in strictly ascending str order.
C4_OrderingLaw ==
    \A i, j \in DirectiveIndices(lib_includes) :
        i < j =>
            /\ is_stdlib(lib_includes[i]) \/ ~is_stdlib(lib_includes[j])
            /\ is_stdlib(lib_includes[i]) = is_stdlib(lib_includes[j])
                   => StrLess(lib_includes[i], lib_includes[j])

\* C4 witness: a list given out of order and with a duplicate has been sorted into
\* a group holding standard-library and other-library directives
C4_Witness ==
    /\ pc = "sorted"
    /\ \E i, j \in 1..Len(includes) : i < j /\ includes[i] = includes[j]
    /\ \E i, j \in 1..Len(includes) : i < j /\ StrLess(includes[j], includes[i])
    /\ \E i, j \in DirectiveIndices(lib_includes) :
           is_stdlib(lib_includes[i]) /\ ~is_stdlib(lib_includes[j])

----------------------------------------------------------------------------
(* C5 *)

\* the directive naming the header of a source file: #include "S.h" for stem S
HeaderOf(file_path) == "#include \"" \o stem(file_path) \o ".h\""

\* the emitted block as a list: the library group, then the local group
EmittedGroups == lib_includes \o src_includes

\* C5: Associated-header placement. When a .c file with stem S is rewritten and
\* #include "S.h" is among the extracted directives, the local group starts with
\* #include "S.h", that text is in the emitted block exactly once, and it is a line
\* of the file written.
C5_AssociatedHeaderFirst ==
    (Rewritten /\ suffix(path) = ".c" /\ HeaderOf(path) \in Range(includes)) =>
        /\ src_includes # << >>
        /\ src_includes[1] = HeaderOf(path)
        /\ Cardinality({ i \in 1..Len(EmittedGroups) : EmittedGroups[i] = HeaderOf(path) }) = 1
        /\ \E i \in 1..Len(OutputLines) : OutputLines[i] = HeaderOf(path) \o "\n"

\* C5 witness: a .c file was rewritten whose #include "S.h" was extracted after
\* another quoted directive
C5_Witness ==
    /\ Rewritten
    /\ suffix(path) = ".c"
    /\ HeaderOf(path) \in Range(includes)
    /\ ending(includes, "\"")[1] # HeaderOf(path)

----------------------------------------------------------------------------
(* C6 *)

\* C6 as claimed: Trailing-newline invariant. A rewritten file ends with exactly one
\* line terminator: its last character is a newline and the one before it is not.
C6_ExactlyOneTerminator ==
    Rewritten =>
        /\ endswith(content, "\n")
        /\ ~endswith(content, "\n\n")

\* C6 as amended: a rewritten file ends with a line terminator.
C6_EndsWithTerminator == Rewritten => endswith(content, "\n")

\* C6 witness: the last line of the input had no terminator and the loop wrote it
\* as it was, so that the terminator of the file written is the appended one
C6_Witness ==
    /\ Rewritten
    /\ ~endswith(input, "\n")
    /\ written # << >>
    /\ written[Len(written)]

----------------------------------------------------------------------------
(* C7 *)

\* C7: When no directive is extracted from a file, the run ends without the file
\* having been opened for writing, with the text of the file as it was before the
\* run, and with the counter of refactored files at 0.
C7_NoDirectivesNoRewrite ==
    (Finished /\ Len(includes) = 0) =>
        /\ ~opened_rw
        /\ content = input
        /\ files_refactored = 0

\* C7 witness: a run has ended on a file that has #include lines, all of them inside
\* conditional blocks, so that none was extracted
C7_Witness ==
    /\ Finished
    /\ Len(includes) = 0
    /\ \E i \in 1..Len(InputLines) : IsInclude(InputLines[i])

----------------------------------------------------------------------------
(* C8 *)

\* a line without its terminator
Chomp(line) == IF endswith(line, "\n") THEN SubSeq(line, 1, Len(line) - 1) ELSE line

\* a line that is neither an #include line nor blank
IsOther(line) == ~IsInclude(line) /\ ~blank(line)

\* the texts, in order, of the lines of a file that are neither #include lines nor blank
RECURSIVE OtherTexts(_)
OtherTexts(lines) ==
    IF lines = << >> THEN << >>
    ELSE IF IsOther(Head(lines)) THEN << Chomp(Head(lines)) >> \o OtherTexts(Tail(lines))
    ELSE OtherTexts(Tail(lines))

\* the index of the first #include line, 0 when there is none
FirstInclude(lines) ==
    IF \E i \in 1..Len(lines) : IsInclude(lines[i])
    THEN Min({ i \in 1..Len(lines) : IsInclude(lines[i]) })
    ELSE 0

\* what the loop put in the buffer for the input lines from i on: the block at the
\* first #include line, a written line as it is, nothing for the other lines
RECURSIVE LoopOutputFrom(_)
LoopOutputFrom(i) ==
    IF i > Len(InputLines) THEN ""
    ELSE (IF i = FirstInclude(InputLines) THEN dump_includes(lib_includes, src_includes)
          ELSE IF written[i] THEN InputLines[i]
          ELSE "") \o LoopOutputFrom(i + 1)

\* C8: Pass-through of other lines. In a rewritten file the lines that are neither
\* #include lines nor blank are those of the input, once each, with the same text
\* and in the same order, and the loop wrote each of them; a blank line is left
\* unwritten only after the first #include line with nothing but blank lines and
\* #include lines in between; and the file written is the block and the written
\* lines in input order, with at most a terminator appended.
C8_PassThrough ==
    Rewritten =>
        /\ OtherTexts(OutputLines) = OtherTexts(InputLines)
        /\ Len(written) = Len(InputLines)
        /\ \A i \in 1..Len(InputLines) : IsOther(InputLines[i]) => written[i]
        /\ \A i \in 1..Len(InputLines) :
               (blank(InputLines[i]) /\ ~written[i]) =>
                   /\ FirstInclude(InputLines) # 0
                   /\ FirstInclude(InputLines) < i
                   /\ \A j \in (FirstInclude(InputLines) + 1)..(i - 1) :
                          blank(InputLines[j]) \/ IsInclude(InputLines[j])
        /\ content \in { LoopOutputFrom(1), LoopOutputFrom(1) \o "\n" }

\* C8 witness: a rewritten file of which a blank line was dropped, another blank
\* line was kept and a line that is neither blank nor an #include line was kept
C8_Witness ==
    /\ Rewritten
    /\ \E i \in 1..Len(InputLines) : blank(InputLines[i]) /\ ~written[i]
    /\ \E i \in 1..Len(InputLines) : blank(InputLines[i]) /\ written[i]
    /\ \E i \in 1..Len(InputLines) : IsOther(InputLines[i]) /\ written[i]

----------------------------------------------------------------------------
(* C9 *)

\* the length of the text before the first #include line of the input
RECURSIVE LengthBefore(_)
LengthBefore(i) == IF i <= 1 THEN 0 ELSE Len(InputLines[i - 1]) + LengthBefore(i - 1)

\* the text of the file written, from the place of the emitted block on
FromBlock ==
    SubSeq(content, LengthBefore(FirstInclude(InputLines)) + 1, Len(content))

\* C9: Group separators. In a rewritten file the emitted block is the library group,
\* one blank line if and only if both groups are non-empty, and the local group;
\* neither group ends or starts with a blank line of its own, so that a file with no
\* library include has no leading blank line; and a blank line of the local group
\* (the one after the associated header) is followed by a directive of that group.
C9_GroupSeparators ==
    Rewritten =>
        /\ startswith(FromBlock,
               write_lines(lib_includes)
                   \o (IF lib_includes # << >> /\ src_includes # << >> THEN "\n" ELSE "")
                   \o write_lines(src_includes))
        /\ lib_includes # << >> => lib_includes[Len(lib_includes)] # ""
        /\ src_includes # << >> => src_includes[1] # ""
        /\ \A i \in 1..Len(src_includes) :
               src_includes[i] = "" =>
                   \E j \in (i + 1)..Len(src_includes) : src_includes[j] # ""

----------------------------------------------------------------------------
(* C10 *)

\* the lines of the file written, from the place of the emitted block on
LinesFromBlock == readlines(FromBlock)

\* the index in LinesFromBlock of the last directive of the emitted block, 0 when
\* the block holds no directive
LastDirective ==
    LET block == readlines(dump_includes(lib_includes, src_includes))
        directives == { i \in 1..Len(block) : ~blank(block[i]) }
    IN  IF directives = {} THEN 0 ELSE CHOOSE m \in directives : \A n \in directives : n <= m

\* C10: Single blank-line boundary after the block. In a rewritten file where a
\* non-blank line follows the last directive of the emitted block, exactly one
\* blank line lies between the two.
C10_SingleBlankAfterBlock ==
    (Rewritten /\ LastDirective # 0) =>
        LET following == { i \in (LastDirective + 1)..Len(LinesFromBlock) :
                               ~blank(LinesFromBlock[i]) }
        IN  following # {} => Min(following) = LastDirective + 2

----------------------------------------------------------------------------
(* C11 *)

\* the files that are neither .c nor .h files
OtherSuffix == { f \in DOMAIN tree : suffix(name(f)) \notin { ".c", ".h" } }

\* C11: When main is given a directory, only .c and .h files reach the rewriting
\* core: a file with another suffix is not in the list of collect_source_files, is
\* not opened for rewriting, and keeps its text, whatever #include lines it holds.
C11_OnlySourceFilesRewritten ==
    arg = Root =>
        \A f \in OtherSuffix :
            /\ \A i \in 1..Len(source_file_paths) : source_file_paths[i] # f
            /\ << f, "r+" >> \notin opened
            /\ tree[f] = tree_before[f]

----------------------------------------------------------------------------
(* C12 *)

\* the path given to main is not one of the file system: it is neither the
\* directory, nor a file, nor a directory that holds a file
ArgMissing ==
    /\ arg # << >>
    /\ arg # Root
    /\ \A f \in DOMAIN tree_before : ~under(f, arg)

\* C12: PathNotFound. When the path given to main does not exist, main raises
\* FileNotFoundError at once: no list of files has been collected, no file has been
\* opened, no file has another text than before, and files_refactored is 0.
C12_PathNotFound ==
    (ArgMissing /\ pc # "main") =>
        /\ pc = "FileNotFoundError"
        /\ source_file_paths = << >>
        /\ opened = {}
        /\ tree = tree_before
        /\ files_refactored = 0

\* C12 witness: main has raised FileNotFoundError for a path under the directory,
\* a directory that holds a source file whose include lines are out of order
C12_Witness ==
    /\ pc = "FileNotFoundError"
    /\ arg = << "proj", "gone" >>
    /\ << "proj", "foo.c" >> \in DOMAIN tree
    /\ has_includes(collect_include_lines(tree[<< "proj", "foo.c" >>]))

----------------------------------------------------------------------------
(* C13 *)

\* a line of code: neither blank nor a preprocessor line
IsCode(line) == ~blank(line) /\ ~startswith(line, "#")

\* line i lies in a conditional block as collect_include_lines tracks them: an #if
\* line stands before it with no #endif line in between
CollectorInBlock(lines, i) ==
    \E j \in 1..(i - 1) :
        IsIf(lines[j]) /\ \A k \in (j + 1)..(i - 1) : ~IsEndif(lines[k])

\* line i lies in a conditional block as the loop of sort_include_lines tracks them:
\* an #if line stands between the first #include line and it, with no #end line in
\* between
RewriterInBlock(lines, i) ==
    \E j \in (FirstInclude(lines) + 1)..(i - 1) :
        IsIf(lines[j]) /\ \A k \in (j + 1)..(i - 1) : ~startswith(lines[k], "#end")

\* the #include lines outside conditional blocks that stand after a line of code
\* that follows the first #include line
IncludesAfterCode ==
    { i \in 1..Len(InputLines) :
        /\ IsInclude(InputLines[i])
        /\ ~CollectorInBlock(InputLines, i)
        /\ ~RewriterInBlock(InputLines, i)
        /\ \E j \in (FirstInclude(InputLines) + 1)..(i - 1) : IsCode(InputLines[j]) }

\* C13 as claimed: First contiguous region only. In a rewritten file, an #include
\* line outside a conditional block that stands after a non-blank non-directive
\* line (which ended the region of the first #include line) was written by the loop
\* as it was, in its place.
C13_LaterIncludeVerbatim ==
    Rewritten => \A i \in IncludesAfterCode : written[i]

\* C13 as amended: every #include line but those the loop takes to be in a
\* conditional block is removed from its place, wherever it stands: the loop writes
\* an #include line if and only if an #if line stands between the first #include
\* line and it with no #end line in between. An #include line after a line of code
\* is not written in its place; its directive, when well-formed, is in the emitted
\* block, or #include "S.h" is there in its stead when it holds the stem S of the
\* .c file.
C13_EveryIncludeOutsideBlocksRemoved ==
    Rewritten =>
        /\ \A i \in 1..Len(InputLines) :
               IsInclude(InputLines[i]) =>
                   (written[i] <=> (FirstInclude(InputLines) < i /\ RewriterInBlock(InputLines, i)))
        /\ \A i \in IncludesAfterCode :
               /\ ~written[i]
               /\ WellFormed(rstrip(InputLines[i])) =>
                      \/ rstrip(InputLines[i]) \in Range(EmittedGroups)
                      \/ /\ suffix(path) = ".c"
                         /\ contains(InputLines[i], stem(path))
                         /\ HeaderOf(path) \in Range(EmittedGroups)

\* C13 witness: a file was rewritten that has a well-formed #include line outside
\* conditional blocks after a line of code that follows the first #include line
C13_Witness ==
    /\ Rewritten
    /\ \E i \in IncludesAfterCode : WellFormed(rstrip(InputLines[i]))

----------------------------------------------------------------------------
(* C14 *)

\* the positions of the double quotes of a directive
Quotes(directive) == { i \in 1..Len(directive) : CharAt(directive, i) = "\"" }

\* the library name of a quoted directive: the text between its first and its last
\* double quote
QuotedName(directive) ==
    IF Cardinality(Quotes(directive)) < 2 THEN ""
    ELSE SubSeq(directive, Min(Quotes(directive)) + 1,
                (CHOOSE m \in Quotes(directive) : \A n \in Quotes(directive) : n <= m) - 1)

\* the directive names the header of the file: its library name without the
\* extension is the stem of the file
NamesStem(directive, file_path) == stem(QuotedName(directive)) = stem(file_path)

\* the quoted directives given to sort_src_includes, in file order
Quoted == ending(includes, "\"")

\* C14: Associated-header detection is an exact match. In the local group made for
\* a file, every quoted directive whose library name is not the stem S of the file
\* (one that only holds S in a longer name, or any one when S is a part of the word
\* include) is left as it is; and when no directive names S, nothing is promoted:
\* the group is the sorted list of the directives.
C14_ExactMatch ==
    pc = "sorted" =>
        /\ \A i \in 1..Len(Quoted) :
               ~NamesStem(Quoted[i], path) => Quoted[i] \in Range(src_includes)
        /\ (\A i \in 1..Len(Quoted) : ~NamesStem(Quoted[i], path))
               => src_includes = fromkeys(sorted(Quoted))

----------------------------------------------------------------------------
(* C15 *)

\* the 18 header names that are standard library headers to the tool
AllowList ==
    { "assert.h", "complex.h", "ctype.h", "errno.h", "float.h", "inttypes.h", "limits.h",
      "locale.h", "math.h", "signal.h", "stdarg.h", "stdbool.h", "stddef.h", "stdint.h",
      "stdio.h", "stdlib.h", "string.h", "time.h" }

\* the 19 header names of the claim
AllowListAsClaimed == AllowList \cup { "stdalign.h" }

\* the directive at position i of the library group is in its standard-library
\* sub-list: it stands before the blank separator when there is one, and when there
\* is none the whole group is the one sub-list sort_lib_includes made
InStdSublist(i) ==
    IF \E j \in 1..Len(lib_includes) : lib_includes[j] = ""
    THEN \A j \in 1..i : lib_includes[j] # ""
    ELSE Len(partition(lib_includes, TRUE)) > 0

\* C15 as claimed: Standard-library classification. An angle-bracket directive is in
\* the standard-library sub-list of the emitted library group if and only if it
\* names one of the 19 headers assert.h ... time.h, stdalign.h among them; every
\* other one is in the other-library sub-list.
C15_ClassificationAsClaimed ==
    pc = "sorted" =>
        \A i \in DirectiveIndices(lib_includes) :
            InStdSublist(i) <=>
                \E h \in AllowListAsClaimed : lib_includes[i] = "#include <" \o h \o ">"

\* C15 as amended: an angle-bracket directive is in the standard-library sub-list of
\* the emitted library group if and only if its text contains <h> for one of the 18
\* headers of the list of lines 28-30, where stdalign.h is not; every other one,
\* #include <stdalign.h> among them, is in the other-library sub-list.
C15_ClassificationBy18 ==
    pc = "sorted" =>
        \A i \in DirectiveIndices(lib_includes) :
            InStdSublist(i) <=>
                \E h \in AllowList : contains(lib_includes[i], "<" \o h \o ">")

\* C15 witness: a library group was made of #include <stdalign.h>, of a directive
\* of the list and of another one, and #include <stdalign.h> stands after the
\* separator
C15_Witness ==
    /\ pc = "sorted"
    /\ \E i, j, k \in 1..Len(lib_includes) :
           /\ i < j /\ j < k
           /\ lib_includes[j] = ""
           /\ lib_includes[k] = "#include <stdalign.h>"
    /\ \E i \in 1..Len(lib_includes) : lib_includes[i] = "#include <b.h>"

----------------------------------------------------------------------------
(* C16 *)

\* the lines of the emitted block as it stands in the file written
BlockLines == readlines(dump_includes(lib_includes, src_includes))

\* C16: Deduplication. In the emitted block of a rewritten file every directive text
\* occurs at most once, in the two groups and in the lines of the block as they stand
\* in the file written, whether the duplicate was in the input or arose from the
\* normalized #include "S.h" being equal to another extracted directive.
C16_Deduplication ==
    Rewritten =>
        /\ \A i, j \in DirectiveIndices(EmittedGroups) :
               i # j => EmittedGroups[i] # EmittedGroups[j]
        /\ \A i, j \in 1..Len(BlockLines) :
               (i # j /\ ~blank(BlockLines[i])) => BlockLines[i] # BlockLines[j]
        /\ startswith(FromBlock, dump_includes(lib_includes, src_includes))

\* C16 witness: a .c file was rewritten from which #include "S.h" was extracted
\* twice, after an angle-bracket directive: a duplicate of the input, the first of
\* the two being replaced by the normalized header, which is equal to the second
C16_Witness ==
    /\ Rewritten
    /\ suffix(path) = ".c"
    /\ Len(includes) = 3
    /\ endswith(includes[1], ">")
    /\ includes[2] = HeaderOf(path)
    /\ includes[3] = HeaderOf(path)

----------------------------------------------------------------------------
(* C17 *)

\* the #include lines of the input that collect_include_lines extracted
ExtractedLines ==
    { i \in 1..Len(InputLines) :
        IsInclude(InputLines[i]) /\ ~CollectorInBlock(InputLines, i) }

\* the extracted lines that end with neither > nor a double quote
MalformedLines == { i \in ExtractedLines : ~WellFormed(rstrip(InputLines[i])) }

\* C17: MalformedDirective. When the run on a file with a malformed #include line
\* outside conditional blocks has ended, the file has been rewritten, the malformed
\* line is in neither group of the emitted block, the loop did not write it in its
\* place, and every well-formed directive extracted from the file is in the emitted
\* block.
C17_MalformedDirectiveDropped ==
    (Finished /\ MalformedLines # {}) =>
        /\ Rewritten
        /\ \A i \in MalformedLines :
               /\ rstrip(InputLines[i]) \notin Range(EmittedGroups)
               /\ ~written[i]
        /\ DirectivesOutsideBlocks(input) \subseteq Range(EmittedGroups)

----------------------------------------------------------------------------
(* C18 *)

\* the positions of the quoted directives that hold the stem of the file
Matching == { i \in 1..Len(Quoted) : contains(Quoted[i], stem(path)) }

\* the local group after its first entry and the separator: the sorted remainder
Remainder == { src_includes[i] : i \in DirectiveIndices(src_includes) \ { 1 } }

\* C18 as claimed: AssociatedHeaderAmbiguity. When several quoted directives of a
\* .c file hold its stem, the first of them in file order is the one replaced by
\* #include "S.h" at the top of the local group, and every other one is in the
\* sorted remainder with its text.
C18_OthersInRemainder ==
    (pc = "sorted" /\ suffix(path) = ".c" /\ Cardinality(Matching) >= 2) =>
        /\ src_includes[1] = HeaderOf(path)
        /\ \A i \in Matching \ { Min(Matching) } : Quoted[i] \in Remainder

\* C18 as amended: the first match in file order is the one replaced by
\* #include "S.h" at the top of the local group; the remainder is, in strictly
\* ascending str order, the other directives, matching or not, except those whose
\* text is #include "S.h": such a one is dropped as a duplicate of the header.
C18_OthersInRemainderUnlessHeader ==
    (pc = "sorted" /\ suffix(path) = ".c" /\ Cardinality(Matching) >= 2) =>
        /\ src_includes[1] = HeaderOf(path)
        /\ Remainder = { Quoted[i] : i \in (1..Len(Quoted)) \ { Min(Matching) } }
                           \ { HeaderOf(path) }
        /\ \A i, j \in DirectiveIndices(src_includes) \ { 1 } :
               i < j => StrLess(src_includes[i], src_includes[j])

\* C18 witness: a local group was made for a .c file of three directives holding
\* its stem, the first of which is not the least in str order and another of which
\* is #include "S.h"
C18_Witness ==
    /\ pc = "sorted"
    /\ suffix(path) = ".c"
    /\ Cardinality(Matching) >= 3
    /\ \E j \in Matching : StrLess(Quoted[j], Quoted[Min(Matching)])
    /\ Quoted[Min(Matching)] # HeaderOf(path)
    /\ \E k \in Matching : Quoted[k] = HeaderOf(path)

----------------------------------------------------------------------------
(* C19 *)

\* C19: The two passes agree on the conditional-block state. In a rewritten file,
\* the loop removed an #include line from its place (it did not write it there) if
\* and only if collect_include_lines extracted it.
C19_PassesAgree ==
    Rewritten =>
        \A i \in 1..Len(InputLines) :
            IsInclude(InputLines[i]) => (~written[i] <=> i \in ExtractedLines)

----------------------------------------------------------------------------
(* C20 *)

\* C20: The rewrite never fails on its own output. When the run on a file with at
\* least one extracted directive has ended, sort_include_lines has not raised: it
\* went on to write the buffer back and the file was counted.
C20_RewriteNeverRaises ==
    (Finished /\ has_includes(includes)) =>
        /\ pc # "raised"
        /\ Rewritten
        /\ files_refactored = 1

====
